---- MODULE Spec2Model ----
(***************************************************************************)
(* Model of best-buy-sniper: the Session Supervisor (pm2.connect callback), *)
(* main() with its Stock Poll Loop, BestBuy.purchaseProduct (the Purchase   *)
(* Orchestrator) and the checkout steps down to submitGuestOrder, together  *)
(* with the purchase marker file purchase.json.                             *)
(*                                                                          *)
(* One process instance is a value of Procs; pc[p] names the statement the  *)
(* instance executes next.  The retailer's pages, the cookie jar, the       *)
(* notification endpoints and Math.random are the environment: every value  *)
(* read from them is drawn from a small set by the action that reads it.    *)
(* Page screenshots and logger calls are assumed not to throw.              *)
(***************************************************************************)
EXTENDS Integers, Sequences, FiniteSets, TLC

\* ------------------------------------------------------------------ bounds
MaxProducts == 2      \* longest candidate list (tasks.json products)
MaxCookieLen == 3     \* longest '_abck' cookie value, in characters
MaxPasses == 3        \* checkout passes explored for one candidate
CounterCap == 2        \* observation counters saturate here
RandomResolution == 65536   \* distinct values of Math.random() modelled

\* ------------------------------------------------------- program constants
DormantWaitMs == 172800000    \* wait(60000 * 60 * 48)
BackoffMin == 10000           \* random(10000, 30000)
BackoffMax == 30000
CooldownMs == 600             \* wait(60 * 10)
ShutdownWaitMs == 60000       \* wait(60000)
MaxShippingAttempts == 3      \* if (attempt > 3) throw
ExitAlreadyComplete == 2      \* process.exit(2)

Procs == {1, 2}
PurchaseFile == "purchase.json"

\* error.message of the errors the workflow throws
BotError == "Browser is considered a bot, aborting attempt"
SkuError == "Product page does not belong to product with sku"
StockError == "Product not in stock, aborting attempt"
\* never thrown: hasItemBeenAddedToCart gives a Response or throws on timeout
CartAddError == "Product was not able to be added to the cart"
CartEmptyError == "Cart is empty, aborting attempt"
ShippingError == "Can't select shipping, aborting attempt"
TotalError == "Total amount does not seems right, aborting"
PageError == "page action failed"          \* a Playwright navigation/wait/click that threw
NotifyError == "notification send failed"  \* hook.send / client.sendMessage rejected
NoError == "none"

\* ------------------------------------------------------------ pure helpers
Digits == <<"0", "1", "2", "3", "4", "5", "6", "7", "8", "9">>

IsDigit(c) == \E i \in 1..Len(Digits) : Digits[i] = c

DigitValue(c) == (CHOOSE i \in 1..Len(Digits) : Digits[i] = c) - 1

RECURSIVE DigitsValue(_)
DigitsValue(s) ==
  IF s = <<>> THEN 0
  ELSE DigitsValue(SubSeq(s, 1, Len(s) - 1)) * 10 + DigitValue(s[Len(s)])

\* Length of the longest prefix of s, from position i on, made of digits.
RECURSIVE DigitRun(_, _)
DigitRun(s, i) ==
  IF i <= Len(s) /\ IsDigit(s[i]) THEN 1 + DigitRun(s, i + 1) ELSE 0

RECURSIVE SkipSpaces(_, _)
SkipSpaces(s, i) ==
  IF i <= Len(s) /\ s[i] = " " THEN SkipSpaces(s, i + 1) ELSE i

\* String.prototype.replace('$', ''): drops the first '$' only.
ReplaceDollar(s) ==
  IF \E i \in 1..Len(s) : s[i] = "$"
  THEN LET i == CHOOSE k \in 1..Len(s) : s[k] = "$" /\ \A j \in 1..(k - 1) : s[j] # "$"
       IN  SubSeq(s, 1, i - 1) \o SubSeq(s, i + 1, Len(s))
  ELSE s

NaN == [nan |-> TRUE, cents |-> 0]
Num(n) == [nan |-> FALSE, cents |-> n]

\* Two-digit fraction as hundredths ("9" -> 90, "99" -> 99); the totals of
\* DisplayedTotals carry at most two fraction digits.
FractionCents(f) ==
  IF Len(f) = 0 THEN 0
  ELSE IF Len(f) = 1 THEN DigitValue(f[1]) * 10
  ELSE DigitsValue(SubSeq(f, 1, 2))

\* parseFloat: skips leading white space, reads an optional sign and the
\* longest decimal literal that follows, ignores whatever comes after it, and
\* gives NaN when no digit is found.  Numbers are held in hundredths.
parseFloat(s) ==
  LET start == SkipSpaces(s, 1)
      neg == start <= Len(s) /\ s[start] = "-"
      signed == start <= Len(s) /\ s[start] \in {"-", "+"}
      i == IF signed THEN start + 1 ELSE start
      n == DigitRun(s, i)
      dot == i + n <= Len(s) /\ s[i + n] = "."
      m == IF dot THEN DigitRun(s, i + n + 1) ELSE 0
      whole == DigitsValue(SubSeq(s, i, i + n - 1))
      frac == FractionCents(SubSeq(s, i + n + 1, i + n + m))
      magnitude == whole * 100 + frac
  IN  IF n = 0 /\ m = 0 THEN NaN
      ELSE Num(IF neg THEN 0 - magnitude ELSE magnitude)

\* JavaScript comparisons with a number that may be NaN.
StrictEquals(x, n) == ~x.nan /\ x.cents = n
GreaterThan(x, n) == ~x.nan /\ x.cents > n

\* RegExp.prototype.test for a literal pattern: substring search.
RegexTest(pat, s) ==
  \E i \in 1..(Len(s) - Len(pat) + 1) : SubSeq(s, i, i + Len(pat) - 1) = pat

sensorValidationRegex == <<"~", "0", "~">>

\* A value read from outside that may be missing (undefined / null element).
Missing == [present |-> FALSE, value |-> <<>>]
Present(s) == [present |-> TRUE, value |-> s]

\* JavaScript truthiness of an optional string: undefined and '' are falsy.
Truthy(v) == v.present /\ v.value # <<>>

\* ------------------------------------------------------ environment inputs
CookieAlphabet == {"~", "0"}

\* Results of find(cookies, { name: '_abck' })?.value
CookieValues ==
  {Missing} \cup
  {Present(s) : s \in UNION {[1..n -> CookieAlphabet] : n \in 0..MaxCookieLen}}

\* Results of (await page.$('.order-summary__price > span'))?.textContent()
DisplayedTotals ==
  { Missing,
    Present(<<>>),
    Present(<<"$", "0", ".", "0", "0">>),
    Present(<<"$", "6", "9", "9", ".", "9", "9">>),
    Present(<<"$", "1", "0", "0", "0", ".", "0", "0">>),
    Present(<<"$", "1", ",", "4", "9", "9", ".", "9", "9">>) }

\* CustomerInformation.budget of config/prod/customer.json, in hundredths.
Budgets == {70000, 100000}

\* Math.random() yields r / RandomResolution for some r in 0..RandomResolution-1;
\* the samples explored are the least, the middle and the greatest.
RandomSamples == {0, RandomResolution \div 2, RandomResolution - 1}

\* Variant of random that forgets to take the lower bound off the span.
randomUnshifted(lower, upper, r) ==
  lower + (r * (upper + 1)) \div RandomResolution

\* lodash random(lower, upper) on integers:
\* lower + Math.floor(Math.random() * (upper - lower + 1))
random(lower, upper, r) ==
  lower + (r * (upper - lower + 1)) \div RandomResolution

\* ------------------------------------------------------------------- state
VARIABLES
  files,              \* names of the files in the working directory
  budget,             \* getCustomerInformation().budget
  numProducts,        \* length of getTasks()[0].stores.bestbuy.products
  active,             \* the process instances that were started
  pc,                 \* per instance: the statement executed next
  error,              \* per instance: message of the error being thrown
  exitCode,           \* per instance: argument of process.exit, -1 while none
  contexts,           \* per instance: browser contexts currently open
  purchaseCompleted,  \* main: purchaseCompleted
  waitTime,           \* per instance: ms of the wait(...) in progress, 0 if none
  candidate,          \* purchaseProduct: index of `product` in this.products
  cart,               \* per instance: candidates whose item is in the session cart
  sensorCookie,       \* addToCart: sensorCookie
  retrying,           \* checkout: retrying
  passes,             \* checkout: calls of checkout() made for this candidate
  attempt,            \* checkout: attempt
  totalText,          \* submitGuestOrder: totalContainerTextContent
  writes,             \* observation: writeFileSync('purchase.json') calls made
  confirms,           \* observation: times the order-confirmation point was reached
  orderClicks,        \* observation: clicks made on the place-order button
  checkedAt,          \* observation: main's marker check vs. purchaseProduct calls
  placedAt            \* observation: candidate that logged 'Order placed!' in this call

shared == <<files, budget, numProducts, active>>
control == <<pc, error>>
procVars == <<exitCode, contexts, purchaseCompleted, waitTime>>
orchVars == <<candidate, cart>>
attemptVars == <<sensorCookie, retrying, passes, attempt, totalText>>
observed == <<writes, confirms, orderClicks, checkedAt, placedAt>>
vars == <<shared, control, procVars, orchVars, attemptVars, observed>>

\* Variant of existsSync that looks the file up under a wrong name and so
\* never finds it.
existsSyncWrongName(path) == (path \o "s") \in files

\* fs.existsSync(path)
existsSync(path) == path \in files

\* The instances `procs` are about to run the pm2.connect callback; the
\* marker may be left over from an earlier process lifetime.
InitFor(procs, productCounts, budgets) ==
  /\ files \in {{}, {PurchaseFile}}
  /\ budget \in budgets
  /\ numProducts \in productCounts
  /\ active = procs
  /\ pc = [p \in Procs |-> IF p \in procs THEN "connect" ELSE "off"]
  /\ error = [p \in Procs |-> NoError]
  /\ exitCode = [p \in Procs |-> -1]
  /\ contexts = [p \in Procs |-> 0]
  /\ purchaseCompleted = [p \in Procs |-> FALSE]
  /\ waitTime = [p \in Procs |-> 0]
  /\ candidate = [p \in Procs |-> 0]
  /\ cart = [p \in Procs |-> {}]
  /\ sensorCookie = [p \in Procs |-> Missing]
  /\ retrying = [p \in Procs |-> FALSE]
  /\ passes = [p \in Procs |-> 0]
  /\ attempt = [p \in Procs |-> 0]
  /\ totalText = [p \in Procs |-> Missing]
  /\ writes = [p \in Procs |-> 0]
  /\ confirms = [p \in Procs |-> 0]
  /\ orderClicks = [p \in Procs |-> 0]
  /\ checkedAt = [p \in Procs |-> "none"]
  /\ placedAt = [p \in Procs |-> 0]

Init == InitFor({1}, 1..MaxProducts, Budgets)

\* Two instances started against the same working directory.
InitTwo == InitFor({1, 2}, {1}, {100000})

\* ----------------------------------------------------------------- helpers
Inc(n) == IF n < CounterCap THEN n + 1 ELSE n

Goto(p, label) == pc' = [pc EXCEPT ![p] = label]

\* throw new Error(msg) inside the try block of purchaseProduct
Throw(p, msg) ==
  /\ pc' = [pc EXCEPT ![p] = "pp_catch"]
  /\ error' = [error EXCEPT ![p] = msg]

\* process.exit(code)
Exit(p, code) ==
  /\ pc' = [pc EXCEPT ![p] = "exited"]
  /\ exitCode' = [exitCode EXCEPT ![p] = code]

\* The locals of addToCart / checkout / submitGuestOrder die with their frames.
ResetAttempt(p) ==
  /\ sensorCookie' = [sensorCookie EXCEPT ![p] = Missing]
  /\ retrying' = [retrying EXCEPT ![p] = FALSE]
  /\ passes' = [passes EXCEPT ![p] = 0]
  /\ attempt' = [attempt EXCEPT ![p] = 0]
  /\ totalText' = [totalText EXCEPT ![p] = Missing]

\* ----------------------------------------------------- Session Supervisor
\* pm2.connect callback: a connection error ends the process, otherwise the
\* browser is created and the restart loop entered.
SupervisorConnect(p) ==
  /\ pc[p] = "connect"
  /\ \E connectError \in BOOLEAN :
       IF connectError
       THEN Exit(p, ExitAlreadyComplete)
       ELSE Goto(p, "main") /\ UNCHANGED exitCode
  /\ UNCHANGED <<shared, error, contexts, purchaseCompleted, waitTime,
                 orchVars, attemptVars, observed>>

\* Variant of MainStart whose marker branch only logs and waits, and then
\* falls through to opening a session instead of ending the process.
MainStartFallsThrough(p) ==
  /\ pc[p] = "main"
  /\ checkedAt' = [checkedAt EXCEPT ![p] = "fresh"]
  /\ Goto(p, "pp_start")
  /\ contexts' = [contexts EXCEPT ![p] = Inc(@)]
  /\ cart' = [cart EXCEPT ![p] = {}]
  /\ purchaseCompleted' = [purchaseCompleted EXCEPT ![p] = FALSE]
  /\ UNCHANGED <<shared, error, exitCode, waitTime, candidate, attemptVars,
                 writes, confirms, orderClicks, placedAt>>

\* Variant of MainStart without the marker check.
MainStartUnchecked(p) ==
  /\ pc[p] = "main"
  /\ Goto(p, "pp_start")
  /\ contexts' = [contexts EXCEPT ![p] = Inc(@)]
  /\ cart' = [cart EXCEPT ![p] = {}]
  /\ purchaseCompleted' = [purchaseCompleted EXCEPT ![p] = FALSE]
  /\ UNCHANGED <<shared, error, exitCode, waitTime, candidate, attemptVars,
                 observed>>

\* ------------------------------------------------------------------ main()
\* Marker check of main, then new BestBuy(...) and bestbuy.open(). open()
\* is awaited before main's try block: when browser.newContext() rejects no
\* context exists, when context.newPage() rejects the context just created
\* stays open, and in both cases the error goes straight to the Supervisor.
MainStart(p) ==
  /\ pc[p] = "main"
  /\ IF existsSync(PurchaseFile)
     THEN /\ Goto(p, "dormant")
          /\ checkedAt' = [checkedAt EXCEPT ![p] = "fresh"]
          /\ waitTime' = [waitTime EXCEPT ![p] = DormantWaitMs]
          /\ UNCHANGED <<error, contexts, purchaseCompleted, cart>>
     ELSE \E opened \in {"page", "context", "nothing"} :
            /\ contexts' = [contexts EXCEPT ![p] = IF opened = "nothing" THEN @ ELSE Inc(@)]
            /\ IF opened = "page"
               THEN /\ Goto(p, "pp_start")
                    /\ checkedAt' = [checkedAt EXCEPT ![p] = "fresh"]
                    /\ UNCHANGED error
               ELSE /\ Goto(p, "sup_catch")
                    /\ checkedAt' = [checkedAt EXCEPT ![p] = "none"]
                    /\ error' = [error EXCEPT ![p] = PageError]
            /\ cart' = [cart EXCEPT ![p] = {}]
            /\ purchaseCompleted' = [purchaseCompleted EXCEPT ![p] = FALSE]
            /\ UNCHANGED waitTime
  /\ UNCHANGED <<shared, exitCode, candidate, attemptVars,
                 writes, confirms, orderClicks, placedAt>>

\* await wait(60000 * 60 * 48); process.exit(2)
MainDormant(p) ==
  /\ pc[p] = "dormant"
  /\ Exit(p, ExitAlreadyComplete)
  /\ waitTime' = [waitTime EXCEPT ![p] = 0]
  /\ UNCHANGED <<shared, error, contexts, purchaseCompleted,
                 orchVars, attemptVars, observed>>

\* After purchaseProduct returned: back off and loop, or leave the loop.
PollCheck(p) ==
  /\ pc[p] = "poll_check"
  /\ IF ~purchaseCompleted[p]
     THEN /\ \E r \in RandomSamples :
               waitTime' = [waitTime EXCEPT ![p] = random(BackoffMin, BackoffMax, r)]
          /\ Goto(p, "backoff")
     ELSE /\ Goto(p, "shutdown_notify")
          /\ UNCHANGED waitTime
  /\ UNCHANGED <<shared, error, exitCode, contexts, purchaseCompleted,
                 orchVars, attemptVars, observed>>

\* await wait(waitTime), then the next iteration of the do-while loop.
Backoff(p) ==
  /\ pc[p] = "backoff"
  /\ Goto(p, "pp_start")
  /\ waitTime' = [waitTime EXCEPT ![p] = 0]
  /\ UNCHANGED <<shared, error, exitCode, contexts, purchaseCompleted,
                 orchVars, attemptVars, observed>>

\* sendDiscordMessage('Shutting down in 1 minute'); a rejection is caught by
\* main's catch block.
ShutdownNotify(p) ==
  /\ pc[p] = "shutdown_notify"
  /\ \E sent \in BOOLEAN :
       IF sent
       THEN /\ Goto(p, "shutdown")
            /\ waitTime' = [waitTime EXCEPT ![p] = ShutdownWaitMs]
            /\ UNCHANGED error
       ELSE /\ Goto(p, "main_catch")
            /\ error' = [error EXCEPT ![p] = NotifyError]
            /\ UNCHANGED waitTime
  /\ UNCHANGED <<shared, exitCode, contexts, purchaseCompleted,
                 orchVars, attemptVars, observed>>

\* BestBuy.close(): this.context?.close()
CloseSession(p) ==
  /\ contexts' = [contexts EXCEPT ![p] = IF @ > 0 THEN @ - 1 ELSE 0]
  /\ cart' = [cart EXCEPT ![p] = {}]

\* await wait(60000); await bestbuy.close(); return true
Shutdown(p) ==
  /\ pc[p] = "shutdown"
  /\ Goto(p, "sup_finish")
  /\ CloseSession(p)
  /\ waitTime' = [waitTime EXCEPT ![p] = 0]
  /\ checkedAt' = [checkedAt EXCEPT ![p] = "none"]
  /\ UNCHANGED <<shared, error, exitCode, purchaseCompleted, candidate,
                 attemptVars, writes, confirms, orderClicks, placedAt>>

\* catch (error) { await bestbuy.close(); throw error; }
MainCatch(p) ==
  /\ pc[p] = "main_catch"
  /\ Goto(p, "sup_catch")
  /\ CloseSession(p)
  /\ checkedAt' = [checkedAt EXCEPT ![p] = "none"]
  /\ UNCHANGED <<shared, error, exitCode, purchaseCompleted, waitTime,
                 candidate, attemptVars, writes, confirms, orderClicks, placedAt>>

\* Supervisor's catch: cooldown after the bot error, plain restart otherwise.
SupervisorCatch(p) ==
  /\ pc[p] = "sup_catch"
  /\ IF error[p] = BotError
     THEN /\ Goto(p, "cooldown")
          /\ waitTime' = [waitTime EXCEPT ![p] = CooldownMs]
     ELSE /\ Goto(p, "main")
          /\ UNCHANGED waitTime
  /\ error' = [error EXCEPT ![p] = NoError]
  /\ UNCHANGED <<shared, exitCode, contexts, purchaseCompleted,
                 orchVars, attemptVars, observed>>

\* await wait(60 * 10), then the next iteration of the restart loop.
Cooldown(p) ==
  /\ pc[p] = "cooldown"
  /\ Goto(p, "main")
  /\ waitTime' = [waitTime EXCEPT ![p] = 0]
  /\ UNCHANGED <<shared, error, exitCode, contexts, purchaseCompleted,
                 orchVars, attemptVars, observed>>

\* finished: browser.close(); pm2.delete('main', ...)
SupervisorFinish(p) ==
  /\ pc[p] = "sup_finish"
  /\ Goto(p, "stopped")
  /\ contexts' = [contexts EXCEPT ![p] = 0]
  /\ UNCHANGED <<shared, error, exitCode, purchaseCompleted, waitTime,
                 orchVars, attemptVars, observed>>

\* -------------------------------------------------- BestBuy.purchaseProduct
\* page.goto('https://bestbuy.com') stands outside the try block: when it
\* throws, the error leaves purchaseProduct.
PurchaseProductStart(p) ==
  /\ pc[p] = "pp_start"
  /\ checkedAt' = [checkedAt EXCEPT ![p] = IF @ = "fresh" THEN "stale" ELSE @]
  /\ placedAt' = [placedAt EXCEPT ![p] = 0]
  /\ \E loaded \in BOOLEAN :
       IF loaded
       THEN /\ Goto(p, "goto_product")
            /\ candidate' = [candidate EXCEPT ![p] = 1]
            /\ UNCHANGED error
       ELSE /\ Goto(p, "main_catch")
            /\ error' = [error EXCEPT ![p] = PageError]
            /\ UNCHANGED candidate
  /\ UNCHANGED <<shared, procVars, cart, attemptVars, writes, confirms, orderClicks>>

\* Variant of PurchaseProductCatch that throws every caught error again.
PurchaseProductCatchRethrowsAll(p) ==
  /\ pc[p] = "pp_catch"
  /\ ResetAttempt(p)
  /\ Goto(p, "main_catch")
  /\ UNCHANGED <<error, candidate, purchaseCompleted>>
  /\ UNCHANGED <<shared, exitCode, contexts, waitTime, cart, observed>>

\* catch (error) of the candidate loop: the bot error is thrown again, every
\* other error moves on to the next product; `return false` after the last.
PurchaseProductCatch(p) ==
  /\ pc[p] = "pp_catch"
  /\ ResetAttempt(p)
  /\ IF error[p] = BotError
     THEN /\ Goto(p, "main_catch")
          /\ UNCHANGED <<error, candidate, purchaseCompleted>>
     ELSE /\ error' = [error EXCEPT ![p] = NoError]
          /\ IF candidate[p] < numProducts
             THEN /\ Goto(p, "goto_product")
                  /\ candidate' = [candidate EXCEPT ![p] = @ + 1]
                  /\ UNCHANGED purchaseCompleted
             ELSE /\ Goto(p, "poll_check")
                  /\ purchaseCompleted' = [purchaseCompleted EXCEPT ![p] = FALSE]
                  /\ UNCHANGED candidate
  /\ UNCHANGED <<shared, exitCode, contexts, waitTime, cart, observed>>

GoToProductPage(p) ==
  /\ pc[p] = "goto_product"
  /\ \E loaded \in BOOLEAN :
       IF loaded THEN Goto(p, "validate_sku") /\ UNCHANGED error
       ELSE Throw(p, PageError)
  /\ UNCHANGED <<shared, procVars, orchVars, attemptVars, observed>>

ValidateProductMatch(p) ==
  /\ pc[p] = "validate_sku"
  /\ \E skuMatches \in BOOLEAN :
       IF skuMatches THEN Goto(p, "atc_cookie") /\ UNCHANGED error
       ELSE Throw(p, SkuError)
  /\ UNCHANGED <<shared, procVars, orchVars, attemptVars, observed>>

\* -------------------------------------------------------- BestBuy.addToCart
\* sensorCookie && !sensorValidationRegex.test(sensorCookie)
IsFlagged(cookie) ==
  Truthy(cookie) /\ ~RegexTest(sensorValidationRegex, cookie.value)

\* Reads the '_abck' cookie and branches on it.
SensorCheck(p) ==
  /\ pc[p] = "atc_cookie"
  /\ \E c \in CookieValues :
       /\ sensorCookie' = [sensorCookie EXCEPT ![p] = c]
       /\ Goto(p, IF IsFlagged(c) THEN "atc_bot_notify" ELSE "atc_stock")
  /\ UNCHANGED <<shared, error, procVars, orchVars,
                 retrying, passes, attempt, totalText, observed>>

\* Variant of BotNotify that sends the notifications and then carries on
\* with the stock check instead of throwing.
BotNotifyWithoutThrow(p) ==
  /\ pc[p] = "atc_bot_notify"
  /\ \E sent \in BOOLEAN :
       IF sent THEN Goto(p, "atc_stock") /\ UNCHANGED error
       ELSE Throw(p, NotifyError)
  /\ sensorCookie' = [sensorCookie EXCEPT ![p] = Missing]
  /\ UNCHANGED <<shared, procVars, orchVars,
                 retrying, passes, attempt, totalText, observed>>

\* await Promise.all([sendDiscordMessage, sendTelegramMessage]); throw bot
\* error.  A rejected send rejects the Promise.all and is thrown instead.
BotNotify(p) ==
  /\ pc[p] = "atc_bot_notify"
  /\ \E sent \in BOOLEAN : Throw(p, IF sent THEN BotError ELSE NotifyError)
  /\ sensorCookie' = [sensorCookie EXCEPT ![p] = Missing]
  /\ UNCHANGED <<shared, procVars, orchVars,
                 retrying, passes, attempt, totalText, observed>>

\* if (!(await this.isInStock())) throw ...
StockCheck(p) ==
  /\ pc[p] = "atc_stock"
  /\ \E inStock \in BOOLEAN :
       IF inStock THEN Goto(p, "atc_stock_notify") /\ UNCHANGED error
       ELSE Throw(p, StockError)
  /\ sensorCookie' = [sensorCookie EXCEPT ![p] = Missing]
  /\ UNCHANGED <<shared, procVars, orchVars,
                 retrying, passes, attempt, totalText, observed>>

\* 'Product ... in stock!' notifications
InStockNotify(p) ==
  /\ pc[p] = "atc_stock_notify"
  /\ \E sent \in BOOLEAN :
       IF sent THEN Goto(p, "atc_click") /\ UNCHANGED error
       ELSE Throw(p, NotifyError)
  /\ UNCHANGED <<shared, procVars, orchVars, attemptVars, observed>>

\* page.click(add-to-cart) and hasItemBeenAddedToCart(): waitForResponse
\* gives a Response or throws on timeout, so `!result` never holds.  The wait
\* starts after the click: the response can be missed although the item was
\* added.
AddToCartClick(p) ==
  /\ pc[p] = "atc_click"
  /\ \E added \in BOOLEAN, seen \in BOOLEAN :
       /\ seen => added
       /\ cart' = [cart EXCEPT ![p] = IF added THEN @ \cup {candidate[p]} ELSE @]
       /\ IF seen THEN Goto(p, "atc_added_notify") /\ UNCHANGED error
          ELSE Throw(p, PageError)
  /\ UNCHANGED <<shared, procVars, candidate, attemptVars, observed>>

\* 'Product ... added to cart!' notifications; then checkout() is called.
AddedNotify(p) ==
  /\ pc[p] = "atc_added_notify"
  /\ \E sent \in BOOLEAN :
       IF sent THEN Goto(p, "co_cart") /\ UNCHANGED error
       ELSE Throw(p, NotifyError)
  /\ UNCHANGED <<shared, procVars, orchVars, attemptVars, observed>>

\* Variant of CheckoutGotoCart that treats every pass as the first one: no
\* cart check, and the zip code and shipping steps again.
CheckoutGotoCartAlwaysFirstPass(p) ==
  /\ pc[p] = "co_cart"
  /\ passes' = [passes EXCEPT ![p] = @ + 1]
  /\ \E loaded \in BOOLEAN, emptied \in BOOLEAN :
       /\ cart' = [cart EXCEPT ![p] = IF emptied THEN {} ELSE @]
       /\ IF ~loaded THEN Throw(p, PageError) /\ UNCHANGED attempt
          ELSE /\ Goto(p, "co_zip")
               /\ attempt' = [attempt EXCEPT ![p] = 1]
               /\ UNCHANGED error
  /\ UNCHANGED <<shared, procVars, candidate, sensorCookie, retrying,
                 totalText, observed>>

\* ---------------------------------------------------------- BestBuy.checkout
\* page.goto(cart); the retailer may have emptied the cart meanwhile.
\* if (retrying && (await this.isCartEmpty())) throw ...
CheckoutGotoCart(p) ==
  /\ pc[p] = "co_cart"
  /\ passes' = [passes EXCEPT ![p] = @ + 1]
  /\ \E loaded \in BOOLEAN, emptied \in BOOLEAN :
       /\ cart' = [cart EXCEPT ![p] = IF emptied THEN {} ELSE @]
       /\ IF ~loaded THEN Throw(p, PageError) /\ UNCHANGED attempt
          ELSE IF retrying[p] /\ cart'[p] = {}
          THEN Throw(p, CartEmptyError) /\ UNCHANGED attempt
          ELSE IF ~retrying[p]
          THEN /\ Goto(p, "co_zip")
               /\ attempt' = [attempt EXCEPT ![p] = 1]
               /\ UNCHANGED error
          ELSE /\ Goto(p, "co_notify")
               /\ UNCHANGED <<error, attempt>>
  /\ UNCHANGED <<shared, procVars, candidate, sensorCookie, retrying,
                 totalText, observed>>

ChangeZipCode(p) ==
  /\ pc[p] = "co_zip"
  /\ \E updated \in BOOLEAN :
       IF updated THEN Goto(p, "co_shipping") /\ UNCHANGED error
       ELSE Throw(p, PageError)
  /\ UNCHANGED <<shared, procVars, orchVars, attemptVars, observed>>

\* Variant of SelectShipping that gives up as soon as the counter reaches
\* the limit, one attempt early.
SelectShippingGivesUpEarly(p) ==
  /\ pc[p] = "co_shipping"
  /\ \E selected \in BOOLEAN :
       IF selected
       THEN Goto(p, "co_notify") /\ UNCHANGED <<error, attempt>>
       ELSE /\ attempt' = [attempt EXCEPT ![p] = @ + 1]
            /\ IF attempt[p] + 1 >= MaxShippingAttempts
               THEN Throw(p, ShippingError)
               ELSE UNCHANGED control
  /\ UNCHANGED <<shared, procVars, orchVars, sensorCookie, retrying, passes,
                 totalText, observed>>

\* One iteration of the do-while loop that selects the shipping option.
SelectShipping(p) ==
  /\ pc[p] = "co_shipping"
  /\ \E selected \in BOOLEAN :
       IF selected
       THEN Goto(p, "co_notify") /\ UNCHANGED <<error, attempt>>
       ELSE /\ attempt' = [attempt EXCEPT ![p] = @ + 1]
            /\ IF attempt[p] + 1 > MaxShippingAttempts
               THEN Throw(p, ShippingError)
               ELSE UNCHANGED control
  /\ UNCHANGED <<shared, procVars, orchVars, sensorCookie, retrying, passes,
                 totalText, observed>>

\* 'Attempting checkout' notifications
CheckoutNotify(p) ==
  /\ pc[p] = "co_notify"
  /\ \E sent \in BOOLEAN :
       IF sent THEN Goto(p, "co_click") /\ UNCHANGED error
       ELSE Throw(p, NotifyError)
  /\ UNCHANGED <<shared, procVars, orchVars, attemptVars, observed>>

\* clickCheckoutButton(), then waitForSelector(guest button, 10000 ms).
ClickCheckout(p) ==
  /\ pc[p] = "co_click"
  /\ \E clicked \in BOOLEAN, rendered \in BOOLEAN :
       IF ~clicked THEN Throw(p, PageError) /\ UNCHANGED <<retrying, passes, attempt>>
       ELSE IF rendered
       THEN /\ Goto(p, "guest")
            /\ retrying' = [retrying EXCEPT ![p] = FALSE]
            /\ passes' = [passes EXCEPT ![p] = 0]
            /\ attempt' = [attempt EXCEPT ![p] = 0]
            /\ UNCHANGED error
       ELSE /\ passes[p] < MaxPasses
            /\ Goto(p, "co_retry_notify")
            /\ UNCHANGED <<error, retrying, passes, attempt>>
  /\ UNCHANGED <<shared, procVars, orchVars, sensorCookie, totalText, observed>>

\* 'Checkout did not went through' notifications; await this.checkout(true)
CheckoutRetryNotify(p) ==
  /\ pc[p] = "co_retry_notify"
  /\ \E sent \in BOOLEAN :
       IF sent
       THEN /\ Goto(p, "co_cart")
            /\ retrying' = [retrying EXCEPT ![p] = TRUE]
            /\ UNCHANGED error
       ELSE Throw(p, NotifyError) /\ UNCHANGED retrying
  /\ UNCHANGED <<shared, procVars, orchVars, sensorCookie, passes, attempt,
                 totalText, observed>>

ContinueAsGuest(p) ==
  /\ pc[p] = "guest"
  /\ \E shown \in BOOLEAN :
       IF shown THEN Goto(p, "sgo_fill") /\ UNCHANGED error
       ELSE Throw(p, PageError)
  /\ UNCHANGED <<shared, procVars, orchVars, attemptVars, observed>>

\* -------------------------------------------------- BestBuy.submitGuestOrder
\* completeShippingInformation, completeContactInformation, continue button,
\* completePaymentInformation
FillOrderInformation(p) ==
  /\ pc[p] = "sgo_fill"
  /\ \E filled \in BOOLEAN :
       IF filled THEN Goto(p, "sgo_total") /\ UNCHANGED error
       ELSE Throw(p, PageError)
  /\ UNCHANGED <<shared, procVars, orchVars, attemptVars, observed>>

\* totalContainerTextContent ? parseFloat(text.replace('$', '')) : 0
ParsedTotal(text) ==
  IF Truthy(text) THEN parseFloat(ReplaceDollar(text.value)) ELSE Num(0)

\* Variant of TotalRejected that also rejects a total equal to the budget.
TotalRejectedAtBudget(parsedTotal, limit) ==
  StrictEquals(parsedTotal, 0) \/ (~parsedTotal.nan /\ parsedTotal.cents >= limit)

\* parsedTotal === 0 || parsedTotal > customerInformation.budget
TotalRejected(parsedTotal, limit) ==
  StrictEquals(parsedTotal, 0) \/ GreaterThan(parsedTotal, limit)

\* Reads the displayed total and validates it against the budget.
ValidateTotal(p) ==
  /\ pc[p] = "sgo_total"
  /\ \E text \in DisplayedTotals :
       /\ totalText' = [totalText EXCEPT ![p] = text]
       /\ IF TotalRejected(ParsedTotal(text), budget)
          THEN Throw(p, TotalError)
          ELSE Goto(p, "sgo_placing_notify") /\ UNCHANGED error
  /\ UNCHANGED <<shared, procVars, orchVars, sensorCookie, retrying, passes,
                 attempt, observed>>

\* 'Placing order...' notifications
PlacingNotify(p) ==
  /\ pc[p] = "sgo_placing_notify"
  /\ \E sent \in BOOLEAN :
       IF sent THEN Goto(p, "sgo_guard") /\ UNCHANGED error
       ELSE Throw(p, NotifyError)
  /\ UNCHANGED <<shared, procVars, orchVars, attemptVars, observed>>

\* Variant of PreSubmitGuard that ends the process with status 0.
PreSubmitGuardExitsClean(p) ==
  /\ pc[p] = "sgo_guard"
  /\ IF existsSync(PurchaseFile)
     THEN Exit(p, 0)
     ELSE Goto(p, "sgo_confirm") /\ UNCHANGED exitCode
  /\ UNCHANGED <<shared, error, contexts, purchaseCompleted, waitTime,
                 orchVars, attemptVars, observed>>

\* if (existsSync('purchase.json')) process.exit(2)
PreSubmitGuard(p) ==
  /\ pc[p] = "sgo_guard"
  /\ IF existsSync(PurchaseFile)
     THEN Exit(p, ExitAlreadyComplete)
     ELSE Goto(p, "sgo_confirm") /\ UNCHANGED exitCode
  /\ UNCHANGED <<shared, error, contexts, purchaseCompleted, waitTime,
                 orchVars, attemptVars, observed>>

\* Variant of the source with the auto-checkout section uncommented.
AutoCheckoutUncommented == TRUE

\* The section `if (!!placeOrderButton) await page.click(...)` is commented
\* out in the source as shipped.
AutoCheckoutEnabled == FALSE

\* The order-confirmation point: the place-order click when auto-checkout is
\* enabled and the button was found, nothing otherwise.
ConfirmOrder(p) ==
  /\ pc[p] = "sgo_confirm"
  /\ Goto(p, "sgo_wait")
  /\ confirms' = [confirms EXCEPT ![p] = Inc(@)]
  /\ \E placeOrderButton \in BOOLEAN :
       orderClicks' = [orderClicks EXCEPT ![p] =
                         IF AutoCheckoutEnabled /\ placeOrderButton THEN Inc(@) ELSE @]
  /\ waitTime' = [waitTime EXCEPT ![p] = 3000]
  /\ UNCHANGED <<shared, error, exitCode, contexts, purchaseCompleted,
                 orchVars, attemptVars, writes, checkedAt, placedAt>>

\* await wait(3000)
WaitAfterConfirm(p) ==
  /\ pc[p] = "sgo_wait"
  /\ Goto(p, "sgo_mark")
  /\ waitTime' = [waitTime EXCEPT ![p] = 0]
  /\ UNCHANGED <<shared, error, exitCode, contexts, purchaseCompleted,
                 orchVars, attemptVars, observed>>

\* logger.info('Order placed!');
\* if (!existsSync('purchase.json')) writeFileSync('purchase.json', '{}')
MarkPurchase(p) ==
  /\ pc[p] = "sgo_mark"
  /\ Goto(p, "sgo_placed_notify")
  /\ placedAt' = [placedAt EXCEPT ![p] = candidate[p]]
  /\ IF ~existsSync(PurchaseFile)
     THEN /\ files' = files \cup {PurchaseFile}
          /\ writes' = [writes EXCEPT ![p] = Inc(@)]
     ELSE UNCHANGED <<files, writes>>
  /\ UNCHANGED <<budget, numProducts, active, error, procVars, orchVars,
                 attemptVars, confirms, orderClicks, checkedAt>>

\* 'Order placed!' notifications
PlacedNotify(p) ==
  /\ pc[p] = "sgo_placed_notify"
  /\ \E sent \in BOOLEAN :
       IF sent THEN Goto(p, "sgo_final") /\ UNCHANGED error
       ELSE Throw(p, NotifyError)
  /\ UNCHANGED <<shared, procVars, orchVars, attemptVars, observed>>

\* The closing waits of submitGuestOrder, then `return true` of purchaseProduct.
ReturnTrue(p) ==
  /\ pc[p] = "sgo_final"
  /\ Goto(p, "poll_check")
  /\ purchaseCompleted' = [purchaseCompleted EXCEPT ![p] = TRUE]
  /\ ResetAttempt(p)
  /\ UNCHANGED <<shared, error, exitCode, contexts, waitTime, orchVars, observed>>

\* ------------------------------------------------------------ specification
Next ==
  \/ \E p \in active : SupervisorConnect(p)
  \/ \E p \in active : MainStart(p)
  \/ \E p \in active : MainDormant(p)
  \/ \E p \in active : PollCheck(p)
  \/ \E p \in active : Backoff(p)
  \/ \E p \in active : ShutdownNotify(p)
  \/ \E p \in active : Shutdown(p)
  \/ \E p \in active : MainCatch(p)
  \/ \E p \in active : SupervisorCatch(p)
  \/ \E p \in active : Cooldown(p)
  \/ \E p \in active : SupervisorFinish(p)
  \/ \E p \in active : PurchaseProductStart(p)
  \/ \E p \in active : PurchaseProductCatch(p)
  \/ \E p \in active : GoToProductPage(p)
  \/ \E p \in active : ValidateProductMatch(p)
  \/ \E p \in active : SensorCheck(p)
  \/ \E p \in active : BotNotify(p)
  \/ \E p \in active : StockCheck(p)
  \/ \E p \in active : InStockNotify(p)
  \/ \E p \in active : AddToCartClick(p)
  \/ \E p \in active : AddedNotify(p)
  \/ \E p \in active : CheckoutGotoCart(p)
  \/ \E p \in active : ChangeZipCode(p)
  \/ \E p \in active : SelectShipping(p)
  \/ \E p \in active : CheckoutNotify(p)
  \/ \E p \in active : ClickCheckout(p)
  \/ \E p \in active : CheckoutRetryNotify(p)
  \/ \E p \in active : ContinueAsGuest(p)
  \/ \E p \in active : FillOrderInformation(p)
  \/ \E p \in active : ValidateTotal(p)
  \/ \E p \in active : PlacingNotify(p)
  \/ \E p \in active : PreSubmitGuard(p)
  \/ \E p \in active : ConfirmOrder(p)
  \/ \E p \in active : WaitAfterConfirm(p)
  \/ \E p \in active : MarkPurchase(p)
  \/ \E p \in active : PlacedNotify(p)
  \/ \E p \in active : ReturnTrue(p)

Spec == Init /\ [][Next]_vars

\* The same program, two instances sharing purchase.json.
SpecTwo == InitTwo /\ [][Next]_vars

\* ------------------------------------------------------------------ claims
\* p took a step (every action of p moves its pc, except a failed shipping
\* attempt, which raises `attempt`).
Stepped(p) == pc'[p] # pc[p] \/ attempt'[p] # attempt[p]

\* Positions of the order-placement step of submitGuestOrder: the pre-submit
\* guard check, the order-confirmation point, the wait and the marker write.
OrderPlacementPcs == {"sgo_guard", "sgo_confirm", "sgo_wait", "sgo_mark"}

\* C1: within one process purchase.json is written at most once, and no step
\* of the program removes it once it exists.
C1_MarkerWrittenOnceNeverCleared ==
  [][/\ \A p \in Procs : writes'[p] <= 1
     /\ (PurchaseFile \in files) => (PurchaseFile \in files')]_vars

\* C1 witness: the marker was written by this process, a later attempt of the
\* same process came back to the pre-submit guard, and the process ended there.
C1_Witness ==
  \E p \in Procs : writes[p] = 1 /\ pc[p] = "exited" /\ contexts[p] = 1

\* The amount a reader sees in the displayed total: the text without its
\* currency sign and thousands separators.
NotSeparator(c) == c \notin {"$", ","}

DisplayedAmount(text) ==
  IF text.present THEN parseFloat(SelectSeq(text.value, NotSeparator)) ELSE NaN

\* The displayed total is a non-zero amount within the budget.
DisplayedTotalWithinBudget(text, limit) ==
  LET amount == DisplayedAmount(text)
  IN  ~amount.nan /\ amount.cents # 0 /\ amount.cents <= limit

\* C2: the order-placement step is reached only with a displayed total that
\* is non-zero and within the budget; any other total ends the attempt with
\* the total error before the step.
C2_TotalGateNeverBypassed ==
  \A p \in Procs :
    pc[p] \in OrderPlacementPcs => DisplayedTotalWithinBudget(totalText[p], budget)

\* C3: of two instances sharing the marker, at most one gets past the
\* pre-submit guard check to the order-confirmation point.
C3_AtMostOneInstanceConfirms ==
  confirms[1] + confirms[2] <= 1

\* C4: a main() run that finds the marker opens no session and calls no
\* purchaseProduct: it waits dormant and then exits with status 2.
C4_MarkerAtMainStartOnlyWaitsAndExits ==
  [][\A p \in Procs :
       /\ (pc[p] = "main" /\ existsSync(PurchaseFile) /\ Stepped(p))
            => (pc'[p] = "dormant" /\ contexts'[p] = contexts[p])
       /\ (pc[p] = "dormant" /\ Stepped(p))
            => (/\ pc'[p] = "exited"
                /\ exitCode'[p] = ExitAlreadyComplete
                /\ contexts'[p] = contexts[p])]_vars

\* C4 witness: a Supervisor restart after this process wrote the marker found
\* it and went dormant.
C4_Witness ==
  \E p \in Procs : pc[p] = "dormant" /\ writes[p] = 1 /\ contexts[p] = 0

C6_MarkerWrittenRightAfterConfirmation ==
  [][\A p \in Procs :
       (pc[p] = "sgo_confirm" /\ Stepped(p))
         => (pc'[p] = "sgo_mark" /\ waitTime'[p] = 0)]_vars

\* The classification C7 states: a cookie that is present and whose value
\* does not contain the clean marker is flagged, the empty value included.
FlaggedAsClaimed(cookie) ==
  cookie.present /\ ~RegexTest(sensorValidationRegex, cookie.value)

\* C7: addToCart takes the bot branch exactly for the cookies the stated
\* classification flags.
C7_CookieClassification ==
  [][\A p \in Procs :
       (pc[p] = "atc_cookie" /\ Stepped(p))
         => (pc'[p] = "atc_bot_notify" <=> FlaggedAsClaimed(sensorCookie'[p]))]_vars

C9_BotErrorShortCircuitsAndRestarts ==
  [][\A p \in Procs :
       /\ (pc[p] = "atc_bot_notify" /\ Stepped(p)) => error'[p] = BotError
       /\ (pc[p] = "pp_catch" /\ error[p] = BotError /\ Stepped(p))
            => (pc'[p] = "main_catch" /\ candidate'[p] = candidate[p])
       /\ (pc[p] = "main_catch" /\ error[p] = BotError /\ Stepped(p))
            => (pc'[p] = "sup_catch" /\ contexts'[p] = contexts[p] - 1)
       /\ (pc[p] = "sup_catch" /\ error[p] = BotError /\ Stepped(p))
            => pc'[p] = "cooldown"
       /\ (pc[p] = "cooldown" /\ Stepped(p))
            => (pc'[p] = "main" /\ contexts'[p] = contexts[p])]_vars

\* C10: no candidate is tried after one whose attempt logged 'Order placed!',
\* and purchaseProduct returns true exactly when some candidate got that far.
C10_TrueAtFirstPlacedFalseWhenExhausted ==
  \A p \in Procs :
    /\ placedAt[p] # 0 => candidate[p] = placedAt[p]
    /\ pc[p] = "poll_check" => (purchaseCompleted[p] <=> placedAt[p] # 0)

\* Positions inside a call of purchaseProduct.
PurchaseProductPcs ==
  {"pp_start", "pp_catch", "goto_product", "validate_sku", "atc_cookie",
   "atc_bot_notify", "atc_stock", "atc_stock_notify", "atc_click",
   "atc_added_notify", "co_cart", "co_zip", "co_shipping", "co_notify",
   "co_click", "co_retry_notify", "guest", "sgo_fill", "sgo_total",
   "sgo_placing_notify", "sgo_guard", "sgo_confirm", "sgo_wait", "sgo_mark",
   "sgo_placed_notify", "sgo_final"}

\* The errors the error taxonomy lists as per-candidate.
PerCandidateErrors ==
  {SkuError, StockError, CartAddError, CartEmptyError, ShippingError, TotalError}

\* A caught error turns into the next candidate, or into `return false` after
\* the last one.
ConvertsToNextCandidate(p) ==
  \/ pc'[p] = "goto_product" /\ candidate'[p] = candidate[p] + 1
  \/ /\ pc'[p] = "poll_check"
     /\ candidate[p] = numProducts
     /\ ~purchaseCompleted'[p]

\* C11 as stated: per-candidate errors are caught in purchaseProduct, and no
\* error but the bot error ever leaves purchaseProduct for main.
C11_OnlyBotErrorLeavesPurchaseProduct ==
  [][\A p \in Procs :
       /\ (pc[p] = "pp_catch" /\ error[p] \in PerCandidateErrors /\ Stepped(p))
            => ConvertsToNextCandidate(p)
       /\ (pc[p] \in PurchaseProductPcs /\ pc'[p] = "main_catch")
            => error'[p] = BotError]_vars

\* C11 amended: every error thrown inside the candidate loop other than the
\* bot error is caught and moves on to the next candidate; the errors that
\* leave purchaseProduct are the bot error and a failure of the opening
\* page.goto, which stands before the loop.
C11_LoopErrorsCaughtExceptBot ==
  [][\A p \in Procs :
       /\ (pc[p] = "pp_catch" /\ error[p] # BotError /\ Stepped(p))
            => ConvertsToNextCandidate(p)
       /\ (pc[p] \in PurchaseProductPcs /\ pc'[p] = "main_catch")
            => \/ pc[p] = "pp_catch" /\ error'[p] = BotError
               \/ pc[p] = "pp_start" /\ error'[p] = PageError]_vars

\* C11 witness: a total error was thrown for the first of two candidates and
\* is about to be caught.
C11_Witness ==
  \E p \in Procs :
    pc[p] = "pp_catch" /\ error[p] = TotalError /\ candidate[p] = 1 /\ numProducts = 2

\* C12: a rejected notification send is never thrown into the workflow: no
\* step ends with the notification error in flight.
C12_NotificationFailureNeverAborts ==
  \A p \in Procs : error[p] # NotifyError

\* C13: checkout() is called at most twice for one candidate: the first pass
\* and a single retry pass.
C13_AtMostOneCheckoutRetry ==
  \A p \in Procs : passes[p] <= 2

\* C14: the shipping option is tried at most 3 times in a non-retry pass: a
\* try is the 1st, 2nd or 3rd; a try that succeeds goes on to the checkout
\* notifications; only the failure of the 3rd try raises the shipping error,
\* and it does so without another try and without reaching the checkout click.
C14_ShippingAtMostThreeAttempts ==
  [][\A p \in Procs : (pc[p] = "co_shipping" /\ Stepped(p)) =>
        /\ ~retrying[p]
        /\ attempt[p] \in 1..3
        /\ pc'[p] \in {"co_shipping", "co_notify", "pp_catch"}
        /\ pc'[p] = "co_shipping" => attempt[p] < 3 /\ attempt'[p] = attempt[p] + 1
        /\ pc'[p] = "co_notify" => attempt'[p] = attempt[p]
        /\ pc'[p] = "pp_catch" => attempt[p] = 3 /\ error'[p] = ShippingError]_vars

C14_Witness ==
  \E p \in Procs : pc[p] = "pp_catch" /\ error[p] = ShippingError /\ attempt[p] = 4

\* C15 (as stated): the backoff waited after an unsuccessful attempt lies in
\* the half-open range [10000, 30000): the upper bound is never chosen.
C15_BackoffInHalfOpenRange ==
  \A p \in Procs : pc[p] = "backoff" => waitTime[p] >= 10000 /\ waitTime[p] < 30000

\* C15 (amended): the backoff waited after an unsuccessful attempt lies in
\* the closed range [10000, 30000], both bounds included.
C15_BackoffInClosedRange ==
  \A p \in Procs : pc[p] = "backoff" => waitTime[p] >= 10000 /\ waitTime[p] <= 30000

C15_Witness ==
  \E p \in Procs : pc[p] = "backoff" /\ waitTime[p] = 30000

\* C16: with t the parsed total and b the budget, the validation step rejects
\* (raises the total error) exactly when t = 0 or t > b and otherwise, for
\* 0 < t <= b, goes on to order placement; a missing total element counts as
\* t = 0 and is rejected.
C16_TotalValidation ==
  [][\A p \in Procs : (pc[p] = "sgo_total" /\ Stepped(p)) =>
        LET t == ParsedTotal(totalText'[p])
            b == budget
            rejected == pc'[p] = "pp_catch" /\ error'[p] = TotalError
            accepted == pc'[p] = "sgo_placing_notify" /\ error'[p] = error[p]
        IN  /\ ~t.nan
            /\ rejected \/ accepted
            /\ rejected <=> (t.cents = 0 \/ t.cents > b)
            /\ accepted <=> (0 < t.cents /\ t.cents <= b)
            /\ ~totalText'[p].present => t.cents = 0 /\ rejected]_vars

\* A total equal to the budget has been accepted.
C16_Witness ==
  \E p \in Procs : /\ pc[p] = "sgo_placing_notify"
                   /\ ParsedTotal(totalText[p]) = Num(budget)

\* C17: at most one browser context opened by the workflow is open at any
\* time, and none is open when the Supervisor starts a main() run.
C17_AtMostOneSessionOpen ==
  \A p \in Procs : contexts[p] <= 1 /\ (pc[p] = "main" => contexts[p] = 0)

\* C18 (as stated): whether the Supervisor finished after main() returned
\* true or the process ended on finding the marker, it ended with status 2.
C18_SuccessAndPriorCompletionExitWithStatus ==
  \A p \in Procs : pc[p] \in {"stopped", "exited"} => exitCode[p] = 2

\* C18 (amended): finding the marker, at the start of main() or at the
\* pre-submit guard, ends the process with status 2; the Supervisor finishing
\* after main() returned true ends without any exit call.
C18_OnlyPriorCompletionExitsWithStatus ==
  [][\A p \in Procs :
       /\ (pc[p] = "main" /\ existsSync(PurchaseFile) /\ Stepped(p))
            => pc'[p] = "dormant"
       /\ (pc[p] = "dormant" /\ Stepped(p))
            => (pc'[p] = "exited" /\ exitCode'[p] = 2)
       /\ (pc[p] = "sgo_guard" /\ existsSync(PurchaseFile) /\ Stepped(p))
            => (pc'[p] = "exited" /\ exitCode'[p] = 2)
       /\ (pc[p] = "sup_finish" /\ Stepped(p))
            => (/\ purchaseCompleted[p]
                /\ pc'[p] = "stopped"
                /\ exitCode'[p] = -1)]_vars

\* The Supervisor finished after a purchase made by this process.
C18_Witness ==
  \E p \in Procs : pc[p] = "stopped" /\ writes[p] = 1 /\ exitCode[p] = -1

\* C19: as shipped, with auto-checkout disabled, the place-order button is
\* never clicked, whatever stock, cart and total are observed.
C19_PlaceOrderNeverClicked ==
  \A p \in Procs : orderClicks[p] = 0

\* The order-confirmation point has been passed, with an accepted total.
C19_Witness ==
  \E p \in Procs : pc[p] = "sgo_wait" /\ confirms[p] = 1 /\ orderClicks[p] = 0

\* C20: the cooldown waited after a bot error lasts minutes: at least
\* 60000 ms, and the 180000 ms (3 minutes) its log message announces.
C20_CooldownLastsThreeMinutes ==
  \A p \in Procs :
    pc[p] = "cooldown" => waitTime[p] >= 60000 /\ waitTime[p] = 180000

\* C21: a retry pass of checkout that loads the cart page and finds the cart
\* empty fails with the cart-empty error, before any checkout click, and the
\* candidate is then given up (the next candidate, or the end of the call);
\* a retry pass never goes to the zip-code or shipping steps, which belong to
\* the first pass only.
C21_RetryPassCartEmptyAndNoZipShipping ==
  [][\A p \in Procs :
       /\ (pc[p] = "co_cart" /\ retrying[p] /\ Stepped(p)) =>
            /\ pc'[p] \in {"pp_catch", "co_notify"}
            /\ (cart'[p] = {} /\ error'[p] # PageError)
                 => (pc'[p] = "pp_catch" /\ error'[p] = CartEmptyError)
            /\ pc'[p] = "co_notify" => cart'[p] # {}
       /\ (pc[p] = "co_cart" /\ Stepped(p) /\ error'[p] = CartEmptyError)
            => (retrying[p] /\ cart'[p] = {})
       /\ (pc[p] = "pp_catch" /\ error[p] = CartEmptyError /\ Stepped(p))
            => (/\ ConvertsToNextCandidate(p)
                /\ ~retrying'[p] /\ passes'[p] = 0)
       /\ pc'[p] \in {"co_zip", "co_shipping"}
            => (~retrying'[p] /\ passes'[p] = 1)]_vars

C21_Witness ==
  \E p \in Procs : /\ pc[p] = "pp_catch" /\ error[p] = CartEmptyError
                   /\ retrying[p] /\ passes[p] = 2 /\ cart[p] = {}

\* C22: whenever the order-placement step is reached for a candidate, the
\* session's cart holds nothing but the item added for that candidate.
C22_CartHoldsOnlyCurrentCandidate ==
  \A p \in Procs :
    pc[p] \in OrderPlacementPcs => cart[p] \subseteq {candidate[p]}
====
